---- MODULE Spec2Model ----
(***************************************************************************)
(* Model of js/initcontext.go: the init-context module loader of k6.       *)
(* InitContext.Require / requireModule / requireFile / Open and            *)
(* newBoundInitContext, over a small file system, with one base context    *)
(* and two bound contexts that share the program and file caches.          *)
(*                                                                         *)
(* A specifier or path string is modelled by its "/"-separated segments:   *)
(* "./lib.js" is <<".", "lib.js">>, "k6/http" is <<"k6", "http">>, the     *)
(* absolute "/t/lib.js" is <<"", "t", "lib.js">>.  A canonical path is the *)
(* segment sequence of an absolute path without the leading empty segment. *)
(***************************************************************************)
EXTENDS Naturals, Sequences, FiniteSets, TLC

\* Top-level Require/Open calls the entry scripts make in total, over all contexts.
MaxCalls == 3

\* Nested requireFile activations a self-requiring module is followed through.
MaxDepth == 4

----------------------------------------------------------------------------
(* Contexts, engines and cancellation handles *)

Base == "base"
Workers == {"w1", "w2"}
Envs == {Base} \cup Workers

\* The goja runtime each context is bound to, and the context pointer it passes
\* to bridged modules: one of each per context.
RuntimeOf(e) == IF e = Base THEN "rt0" ELSE IF e = "w1" THEN "rt1" ELSE "rt2"
CtxPtrOf(e) == IF e = Base THEN "ctx0" ELSE IF e = "w1" THEN "ctx1" ELSE "ctx2"
Runtimes == {RuntimeOf(e) : e \in Envs}

\* The afero filesystem handed to NewInitContext, and the nil a bound context gets.
OsFs == "fs"
NilFs == "nil"

----------------------------------------------------------------------------
(* Values of the scripting engine *)

Val(k, n) == [k |-> k, id |-> n]
Obj(n) == Val("obj", n)
\* No property of that name on the global object.
Unbound == Val("unbound", 0)
\* Go's nil goja.Value: what Runtime.Get returns for a missing property.
GoNil == Val("nil", 0)
Null == Val("null", 0)
Undefined == Val("undefined", 0)

\* goja.Runtime.Get(name): the property's value, or nil when there is none.
RtGet(binding) == IF binding = Unbound THEN GoNil ELSE binding

\* goja.Runtime.Set(name, v): puts ToValue(v) as a property of the global
\* object; ToValue(nil) is null.  A Set never removes a property.
RtSet(v) == IF v = GoNil THEN Null ELSE v

\* A new empty object of the engine.
EmptyObject == [exports |-> Undefined, value |-> 0]

----------------------------------------------------------------------------
(* The path resolver *)

RECURSIVE Normalize(_, _)
\* Clean a segment sequence: "." and "" are dropped, ".." removes the segment
\* before it.
Normalize(acc, segs) ==
    IF segs = <<>> THEN acc
    ELSE LET s == Head(segs) IN
         IF s = "." \/ s = "" THEN Normalize(acc, Tail(segs))
         ELSE IF s = ".."
              THEN Normalize(IF acc = <<>> THEN acc ELSE SubSeq(acc, 1, Len(acc) - 1),
                             Tail(segs))
              ELSE Normalize(Append(acc, s), Tail(segs))

\* loader.Resolve(pwd, name): the canonical path of name, against pwd unless
\* name is absolute.
Resolve(pwd, name) ==
    IF name # <<>> /\ Head(name) = "" THEN Normalize(<<>>, name)
    ELSE Normalize(pwd, name)

\* loader.Dir(filename): the directory of a canonical path.
Dir(filename) ==
    IF filename = <<>> THEN <<>> ELSE SubSeq(filename, 1, Len(filename) - 1)

----------------------------------------------------------------------------
(* The file system and the scripts in it *)

HomeDir == <<"t">>

LibJs == <<"t", "lib.js">>
SubAJs == <<"t", "sub", "a.js">>
BoomJs == <<"t", "boom.js">>
CJs == <<"t", "c.js">>
MainJs == <<"t", "main.js">>
BadJs == <<"t", "bad.js">>
NewJs == <<"t", "new.js">>
K6File == <<"t", "k6">>
ATxt == <<"t", "a.txt">>
LoopJs == <<"t", "loop.js">>

\* What a script's top-level code does, in order.
Op(o, a) == [op |-> o, arg |-> a]

\* The top-level code of the module at a canonical path.
Script(path) ==
    CASE path = LibJs -> << Op("set", <<>>) >>
      [] path = NewJs -> << Op("set", <<>>) >>
      [] path = K6File -> << Op("set", <<>>) >>
      [] path = SubAJs -> << Op("require", <<"..", "lib.js">>),
                             Op("open", <<"..", "a.txt">>),
                             Op("reassign", <<>>) >>
      [] path = BoomJs -> << Op("require", <<".", "lib.js">>),
                             Op("throw", <<>>) >>
      [] path = MainJs -> << Op("require", <<".", "lib.js">>),
                             Op("bump", <<>>),
                             Op("require", <<"..", "t", "lib.js">>) >>
      [] path = CJs -> << Op("tryrequire", <<".", "bad.js">>),
                          Op("tryrequire", <<".", "bad.js">>),
                          Op("set", <<>>),
                          Op("require", <<".", "new.js">>) >>
      [] path = LoopJs -> << Op("require", <<".", "loop.js">>) >>
      [] OTHER -> <<>>

\* The file at a canonical path in a given epoch of the disk: kind "js" is a
\* script that compiles, "badjs" one that does not, "txt" a data file,
\* "missing" no file.  ver is the version of its content.
Disk(epoch, path) ==
    CASE path \in {SubAJs, BoomJs, CJs, MainJs, K6File, LoopJs} -> [kind |-> "js", ver |-> 1]
      [] path = LibJs -> [kind |-> "js", ver |-> epoch + 1]
      [] path = ATxt -> [kind |-> "txt", ver |-> epoch + 1]
      [] path = BadJs -> [kind |-> "badjs", ver |-> 1]
      [] path = NewJs -> IF epoch = 0 THEN [kind |-> "missing", ver |-> 0]
                         ELSE [kind |-> "js", ver |-> 1]
      [] OTHER -> [kind |-> "missing", ver |-> 0]

\* The builtin registry, modules.Index.
Index == { <<"k6">>, <<"k6", "http">> }

\* Specifiers the entry scripts pass to require().
RequireArgs ==
    { <<".", "lib.js">>, <<"", "t", "lib.js">>,
      <<".", "sub", "a.js">>, <<".", "boom.js">>, <<".", "c.js">>, <<".", "main.js">>,
      <<"k6">>, <<"k6", "http">>, <<"k6", "doesnotexist">>, <<"k6foo">> }

\* Specifiers the entry scripts pass to open().
OpenArgs == { <<"a.txt">>, <<".", "a.txt">>, <<".", "gone.txt">> }

\* The calls among them that the entry script of a bound context makes.
BoundRequireArgs == { <<".", "lib.js">>, <<".", "sub", "a.js">>, <<"k6", "http">> }
BoundOpenArgs == { <<".", "a.txt">> }

----------------------------------------------------------------------------
(* The loader and the compiler *)

\* loader.Load(fs, pwd, name): reads the file name resolves to against pwd.  It
\* fails when there is no such file.  A bound context passes a nil filesystem:
\* whether the loader can then still produce the file (a source it reaches
\* without the filesystem) is not decided by this code, so both outcomes are
\* possible.
Load(fs, epoch, pwd, name) ==
    LET fn == Resolve(pwd, name)
        d == Disk(epoch, fn)
        good == [ok |-> TRUE, Filename |-> fn, Data |-> [path |-> fn, kind |-> d.kind, ver |-> d.ver]]
        bad == [ok |-> FALSE, Filename |-> fn, Data |-> [path |-> fn, kind |-> "missing", ver |-> 0]]
    IN  IF d.kind = "missing" THEN {bad}
        ELSE IF fs = NilFs THEN {good, bad}
        ELSE {good}

NoProgram == [pgm |-> <<>>, src |-> <<>>]

\* compiler.Transform followed by goja.Compile on loaded data: a
\* programWithSource, or an error when the source is not a valid script.  n
\* numbers the goja.Program instances made for the path.
Compile(data, n) ==
    IF data.kind = "js"
    THEN [ok |-> TRUE, p |-> [pgm |-> <<data.path, n>>, src |-> <<data.path, data.ver>>]]
    ELSE [ok |-> FALSE, p |-> NoProgram]

\* The top-level code a compiled program runs.
ProgramCode(p) == IF p = NoProgram THEN <<>> ELSE Script(p.pgm[1])

----------------------------------------------------------------------------
(* State *)

VARIABLES
    programs,   \* InitContext.programs: canonical path -> programWithSource (one map, shared)
    files,      \* InitContext.files: canonical path -> data (one map, shared)
    epoch,      \* the state of the disk
    live,       \* the contexts constructed so far
    ic,         \* per context: the InitContext fields runtime, ctxPtr, fs, pwd
    globals,    \* per runtime: the global bindings exports and module
    heap,       \* per runtime: the live objects
    nextObj,    \* per runtime: objects created so far
    stack,      \* per context: the requireFile/Open activations in progress
    exc,        \* per context: an error is propagating through the running script
    last,       \* the return of Require/Open made by the step just taken, if any
    calls,      \* top-level calls made so far
    compiled,   \* per path: successful compilations so far (0, 1, 2 = more than one)
    loaded,     \* per path: successful loads by Open so far (0, 1, 2 = more than one)
    served,     \* per path: the content the first successful Open of it returned
    obs         \* history flags

vars == <<programs, files, epoch, live, ic, globals, heap, nextObj, stack, exc, last,
          calls, compiled, loaded, served, obs>>

Paths == {LibJs, SubAJs, BoomJs, CJs, MainJs, BadJs, NewJs, K6File, ATxt, LoopJs}

Put(map, k, v) == [x \in (DOMAIN map) \cup {k} |-> IF x = k THEN v ELSE map[x]]

Bump(n) == IF n >= 2 THEN 2 ELSE n + 1

\* As IsBuiltin, but testing the prefix "k6" without the slash.
IsBuiltinPrefix(arg) == arg # <<>> /\ arg[1] \in {"k6", "k6foo"}

\* Classification of Require's argument: "k6", or a string starting "k6/".
IsBuiltin(arg) == arg = <<"k6">> \/ (Len(arg) >= 2 /\ arg[1] = "k6")

NoReturn ==
    [env |-> "", kind |-> "none", op |-> "", name |-> <<>>, filename |-> <<>>, err |-> "", val |-> Undefined,
     value |-> 0, rt |-> "", ctx |-> "", data |-> <<>>,
     pwdIn |-> <<>>, pwdOut |-> <<>>, bindIn |-> <<>>, bindOut |-> <<>>,
     depth |-> 0, depthIn |-> 0, same |-> TRUE, first |-> 0, hit |-> FALSE, warm |-> FALSE]

\* NewInitContext(rt, ctxPtr, fs, pwd).
NewInitContext(rt, ctxPtr, fs, pwd) ==
    [runtime |-> rt, ctxPtr |-> ctxPtr, fs |-> fs, pwd |-> pwd]

Init ==
    /\ programs = <<>>
    /\ files = <<>>
    /\ epoch = 0
    /\ live = {Base}
    /\ ic = [e \in Envs |-> NewInitContext(RuntimeOf(Base), CtxPtrOf(Base), OsFs, HomeDir)]
    /\ globals = [r \in Runtimes |-> [exports |-> Unbound, module |-> Unbound]]
    /\ heap = [r \in Runtimes |-> <<>>]
    /\ nextObj = [r \in Runtimes |-> 0]
    /\ stack = [e \in Envs |-> <<>>]
    /\ exc = [e \in Envs |-> FALSE]
    /\ last = NoReturn
    /\ calls = 0
    /\ compiled = [p \in Paths |-> 0]
    /\ loaded = [p \in Paths |-> 0]
    /\ served = <<>>
    /\ obs = [boundWrote |-> FALSE, hitLoaded |-> FALSE, hitOpened |-> FALSE,
              warmWrote |-> FALSE]

----------------------------------------------------------------------------
(* Helpers on the activation stack *)

Top(e) == stack[e][Len(stack[e])]
Rest(e) == SubSeq(stack[e], 1, Len(stack[e]) - 1)
Idle(e) == stack[e] = <<>>

\* The operation the script of a requireFile activation is at: none when its
\* top-level code has run to its end.
CurOp(f) ==
    IF f.kind = "file" /\ f.pc = "exec" /\ f.ip <= Len(ProgramCode(f.pgm))
    THEN ProgramCode(f.pgm)[f.ip]
    ELSE Op("end", <<>>)

\* The calling script after a call of its returned (ok) or threw (err): it moves
\* on to its next operation, unless the call threw and the script does not catch.
Resume(s, r) ==
    IF s = <<>> THEN s
    ELSE LET f == s[Len(s)] IN
         IF r.kind = "ok" \/ CurOp(f).op = "tryrequire"
         THEN [s EXCEPT ![Len(s)].ip = f.ip + 1, ![Len(s)].held = r.val]
         ELSE s

\* Whether an error returned into stack s is still propagating in the caller.
Pending(s, kind) ==
    s # <<>> /\ kind = "err" /\ CurOp(s[Len(s)]).op # "tryrequire"

\* Context e is about to take a step that touches only its own runtime and
\* stack: its module's code is between two calls, or an error is propagating.
Local(e) ==
    /\ e \in live
    /\ stack[e] # <<>>
    /\ \/ exc[e]
       \/ /\ Top(e).kind = "file"
          /\ Top(e).pc = "exec"
          /\ CurOp(Top(e)).op \in {"set", "reassign", "bump", "throw", "end"}

\* Such steps commute with every step of the other contexts, so they are taken
\* first: e takes a step that reads or writes shared state only when no other
\* context is in the middle of them.  No outcome is left out.
Quiet(e) == \A o \in live \ {e} : ~Local(o)

RECURSIVE Needs(_)
\* The canonical paths of the modules a module requires, itself included.
Needs(path) ==
    {path} \cup UNION { Needs(Resolve(Dir(path), Script(path)[k].arg)) :
                          k \in { j \in DOMAIN Script(path) :
                                    Script(path)[j].op \in {"require", "tryrequire"} } }

----------------------------------------------------------------------------
(* Context replication *)

\* As newBoundInitContext, but leaving pwd out of the struct literal.
newBoundInitContextNoPwd(base, ctxPtr, rt) ==
    [runtime |-> rt, ctxPtr |-> ctxPtr, fs |-> NilFs, pwd |-> <<>>]

\* As newBoundInitContext, but keeping the base's context pointer.
newBoundInitContextBaseCtx(base, ctxPtr, rt) ==
    [runtime |-> rt, ctxPtr |-> base.ctxPtr, fs |-> NilFs, pwd |-> base.pwd]

\* As newBoundInitContext, but keeping the base's runtime.
newBoundInitContextShared(base, ctxPtr, rt) ==
    [runtime |-> base.runtime, ctxPtr |-> ctxPtr, fs |-> NilFs, pwd |-> base.pwd]

\* newBoundInitContext(base, ctxPtr, rt): runtime and ctxPtr are the arguments,
\* fs is nil, pwd is copied from base; programs, files and Console are base's.
newBoundInitContext(base, ctxPtr, rt) ==
    [runtime |-> rt, ctxPtr |-> ctxPtr, fs |-> NilFs, pwd |-> base.pwd]

\* A bound context is made for worker w, once the base context is quiescent.
Replicate(w) ==
    /\ w \in Workers \ live
    /\ w = "w2" => "w1" \in live
    /\ Idle(Base)
    /\ Quiet(w)
    /\ live' = live \cup {w}
    /\ ic' = [ic EXCEPT ![w] = newBoundInitContext(ic[Base], CtxPtrOf(w), RuntimeOf(w))]
    /\ last' = NoReturn
    /\ UNCHANGED <<programs, files, epoch, globals, heap, nextObj, stack, exc,
                   calls, compiled, loaded, served, obs>>

\* The file system changes under the program: lib.js and a.txt get new
\* content, new.js appears.
Edit ==
    /\ epoch = 0
    /\ Quiet("")
    /\ epoch' = 1
    /\ last' = NoReturn
    /\ UNCHANGED <<programs, files, live, ic, globals, heap, nextObj, stack, exc,
                   calls, compiled, loaded, served, obs>>

\* A context whose entry script may make a call now: the base context runs
\* alone during the init phase and is quiescent once a bound context exists.
MayCall(e) ==
    /\ e \in live
    /\ Idle(e)
    /\ e = Base => live = {Base}
    /\ calls < MaxCalls
    /\ Quiet(e)

----------------------------------------------------------------------------
(* Returning from Require and Open *)

\* What Require/Open hands back: a value or content (ok), or an error (err).
Result(kind, err, val, data, rt, ctx) ==
    [kind |-> kind, err |-> err, val |-> val, data |-> data, rt |-> rt, ctx |-> ctx]

Failure(err) == Result("err", err, Undefined, <<>>, "", "")

\* An activation of requireFile or Open: the call's locals (name, filename, pwd,
\* oldExports, oldModule, module, pgm), where it is (pc, ip), and what held when
\* the call was entered (the g fields), kept to state the properties.
Frame(kind, e, name, filename, pc, pgm, oldExports, oldModule, module, isCached) ==
    [kind |-> kind, name |-> name, filename |-> filename, pc |-> pc, ip |-> 1, pgm |-> pgm,
     held |-> Undefined,
     pwd |-> ic[e].pwd, oldExports |-> oldExports, oldModule |-> oldModule, module |-> module,
     gPwd |-> ic[e].pwd, gBind |-> globals[ic[e].runtime], gFirst |-> nextObj[ic[e].runtime],
     gHit |-> isCached, gDepth |-> Len(stack[e]),
     gWarm |-> IF Idle(e)
               THEN /\ e # Base
                    /\ ~obs.boundWrote
                    /\ Needs(Resolve(ic[e].pwd, name)) \subseteq DOMAIN programs
               ELSE stack[e][1].gWarm]

\* The deferred calls of requireFile, run on every way out of it: module and
\* exports are set back to the values read on entry.
RestoreBindings(f, g) ==
    [exports |-> RtSet(f.oldExports), module |-> RtSet(f.oldModule)]

\* As RestorePwd, but leaving i.pwd as the call set it.
RestorePwdStale(f, cur) == cur

\* The deferred closure of requireFile: i.pwd = pwd.
RestorePwd(f, cur) == f.pwd

\* As LeavePwd, but with Open moving i.pwd to the file's directory.
LeavePwdMoved(f, cur) == IF f.kind = "open" THEN Dir(f.filename) ELSE cur

\* requireModule and Open never assign i.pwd.
LeavePwd(f, cur) == cur

\* The objects that stay reachable when activation f hands val back to the
\* scripts of stack s: those made before f was entered, while a caller is still
\* running, and the value handed back.
Reachable(h, f, s, val) ==
    IF s = <<>> THEN {}
    ELSE {i \in DOMAIN h : i <= f.gFirst} \cup (IF val.k = "obj" THEN {val.id} \cap DOMAIN h ELSE {})

\* Activation f of context e returns r to the script on top of s (the entry
\* script when s is empty).  Sets ic, globals, heap, nextObj, stack, exc and last.
Finish(e, f, s, r) ==
    LET rt == ic[e].runtime
        isFile == f.kind = "file"
    IN  /\ ic' = [ic EXCEPT ![e].pwd = IF isFile THEN RestorePwd(f, @) ELSE LeavePwd(f, @)]
        /\ globals' = [globals EXCEPT ![rt] = IF isFile THEN RestoreBindings(f, @) ELSE @]
        /\ heap' = [heap EXCEPT ![rt] =
                       [i \in Reachable(heap[rt], f, s, r.val) |-> heap[rt][i]]]
        /\ nextObj' = [nextObj EXCEPT ![rt] = IF s = <<>> THEN 0 ELSE @]
        /\ stack' = [stack EXCEPT ![e] = Resume(s, r)]
        /\ exc' = [exc EXCEPT ![e] = Pending(s, r.kind)]
        /\ last' = [env |-> e, kind |-> r.kind, op |-> f.kind, name |-> f.name,
                    filename |-> f.filename,
                        err |-> r.err, val |-> r.val,
                        value |-> IF r.val.k = "obj" /\ r.val.id \in DOMAIN heap[rt]
                                  THEN heap[rt][r.val.id].value ELSE 0,
                        rt |-> r.rt, ctx |-> r.ctx, data |-> r.data,
                        pwdIn |-> f.gPwd, pwdOut |-> ic'[e].pwd,
                        bindIn |-> f.gBind, bindOut |-> globals'[rt],
                        depth |-> Len(s), depthIn |-> f.gDepth,
                        same |-> (programs' = programs /\ files' = files),
                        first |-> f.gFirst, hit |-> f.gHit, warm |-> f.gWarm]

----------------------------------------------------------------------------
(* Require of a builtin module *)

\* As requireModule, but handing back undefined for a name not in the registry.
requireModuleLenient(c, name) ==
    IF name \in Index
    THEN Result("ok", "", Val("native", 0), name, c.runtime, c.ctxPtr)
    ELSE Result("ok", "", Undefined, name, c.runtime, c.ctxPtr)

\* InitContext.requireModule(name): the registry's module bound to the
\* context's runtime and context pointer, or an error.
requireModule(c, name) ==
    IF name \in Index
    THEN Result("ok", "", Val("native", 0), name, c.runtime, c.ctxPtr)
    ELSE Failure("unknown builtin module")

RequireBuiltin(e, arg) ==
    /\ UNCHANGED <<programs, files, epoch, live, compiled, loaded, served, obs>>
    /\ Finish(e, Frame("builtin", e, arg, <<>>, "done", NoProgram, GoNil, GoNil, 0, FALSE),
              stack[e], requireModule(ic[e], arg))

----------------------------------------------------------------------------
(* Require of a file *)

\* As Cached, but never finding an entry.
CachedNever(map, filename) == FALSE

\* pgm, ok := i.programs[filename] and data, ok := i.files[filename]: whether
\* the map has an entry for the key.
Cached(map, filename) == filename \in DOMAIN map

\* As CacheKey, but joining pwd and name without cleaning the path.
CacheKeyUnclean(pwd, name) == pwd \o name

\* The key of InitContext.programs and InitContext.files for a specifier:
\* filename := loader.Resolve(pwd, name).
CacheKey(pwd, name) == Resolve(pwd, name)

\* As PushPwd, but taking the file's path for its directory.
PushPwdFile(filename) == filename

\* i.pwd = loader.Dir(filename): the directory of the module being loaded.
PushPwd(filename) == Dir(filename)

\* As NewExports, but populating the caller's exports object when there is one.
NewExportsReused(n, oldExports) == IF oldExports.k = "obj" THEN oldExports.id ELSE n + 1

\* exports := i.runtime.NewObject(): an object the runtime did not hold
\* before, given the number n of objects it has made and the caller's exports.
NewExports(n, oldExports) == n + 1

\* As EntryPoint, but taking a cached program as already run.
EntryPointSkip(p, isHit) == IF isHit THEN Len(ProgramCode(p)) + 1 ELSE 1

\* runtime.RunProgram(pgm.pgm) runs the program from its first operation,
\* whether it was just compiled or found in the cache.
EntryPoint(p, isHit) == 1

\* The first part of requireFile: pwd and the exports/module bindings are saved
\* and replaced, and the program is looked up in the cache.
EnterFile(e, name) ==
    LET rt == ic[e].runtime
        filename == CacheKey(ic[e].pwd, name)
        oldExports == RtGet(globals[rt].exports)
        oldModule == RtGet(globals[rt].module)
        exports == NewExports(nextObj[rt], oldExports)
        module == nextObj[rt] + 2
        ok == Cached(programs, filename)
        truePath == Resolve(ic[e].pwd, name)
        isCached == truePath \in Paths /\ compiled[truePath] > 0
        pgm == IF ok THEN programs[filename] ELSE NoProgram
        f == [Frame("file", e, name, filename, IF ok THEN "exec" ELSE "load", pgm,
                    oldExports, oldModule, module, isCached)
                 EXCEPT !.ip = EntryPoint(pgm, ok)]
    IN  /\ ic' = [ic EXCEPT ![e].pwd = PushPwd(filename)]
        /\ globals' = [globals EXCEPT ![rt] =
                          [exports |-> RtSet(Obj(exports)), module |-> RtSet(Obj(module))]]
        /\ heap' = [heap EXCEPT ![rt] =
                       Put(Put(@, exports, EmptyObject), module,
                           [EmptyObject EXCEPT !.exports = Obj(exports)])]
        /\ nextObj' = [nextObj EXCEPT ![rt] = @ + 2]
        /\ stack' = [stack EXCEPT ![e] = Append(@, f)]
        /\ last' = NoReturn
        /\ UNCHANGED <<programs, files, epoch, live, exc, compiled, loaded, served, obs>>

\* InitContext.Require(arg).
DoRequire(e, arg) ==
    IF IsBuiltin(arg) THEN RequireBuiltin(e, arg) ELSE EnterFile(e, arg)

\* As StoreProgram, but storing whatever the compiler handed back.
StoreProgramAlways(progs, filename, c) == Put(progs, filename, c.p)

\* i.programs[filename] = pgm, reached only when load, transform and compile
\* all succeeded.
StoreProgram(progs, filename, c) ==
    IF c.ok THEN Put(progs, filename, c.p) ELSE progs

\* The cache miss of requireFile: load, transform, compile, store.
LoadCompile(e) ==
    /\ e \in live
    /\ ~Idle(e)
    /\ Top(e).kind = "file"
    /\ Top(e).pc = "load"
    /\ Quiet(e)
    /\ \E r \in Load(ic[e].fs, epoch, Top(e).pwd, Top(e).name) :
        LET f == Top(e)
            n == IF r.Filename \in Paths THEN Bump(compiled[r.Filename]) ELSE 1
            c == IF r.ok THEN Compile(r.Data, n) ELSE [ok |-> FALSE, p |-> NoProgram]
        IN  /\ programs' = StoreProgram(programs, f.filename, c)
            /\ compiled' = IF c.ok THEN [compiled EXCEPT ![r.Filename] = n] ELSE compiled
            /\ obs' = [obs EXCEPT !.hitLoaded = @ \/ f.gHit,
                                  !.boundWrote = @ \/ (e # Base /\ programs' # programs),
                                  !.warmWrote = @ \/ (e # Base /\ stack[e][1].gWarm
                                                         /\ programs' # programs)]
            /\ UNCHANGED <<files, epoch, live, calls, loaded, served>>
            /\ IF c.ok
               THEN /\ stack' = [stack EXCEPT ![e][Len(stack[e])] =
                                    [f EXCEPT !.pc = "exec", !.pgm = c.p]]
                    /\ last' = NoReturn
                    /\ UNCHANGED <<ic, globals, heap, nextObj, exc>>
               ELSE Finish(e, f, Rest(e), Failure(IF r.ok THEN "compile" ELSE "load"))

----------------------------------------------------------------------------
(* Open *)

\* As StoreFile, but never storing.
StoreFileNever(fls, filename, r) == fls

\* i.files[filename] = data_.Data, reached only when the load succeeded.
StoreFile(fls, filename, r) ==
    IF r.ok THEN Put(fls, filename, r.Data) ELSE fls

\* InitContext.Open(name) up to the cache lookup: a hit returns the cached
\* data at once, a miss goes on to the loader.
DoOpen(e, name) ==
    LET filename == CacheKey(ic[e].pwd, name)
        ok == Cached(files, filename)
        truePath == Resolve(ic[e].pwd, name)
        isCached == truePath \in Paths /\ loaded[truePath] > 0
        f == Frame("open", e, name, filename, IF ok THEN "done" ELSE "load", NoProgram,
                   GoNil, GoNil, 0, isCached)
    IN  IF ok
        THEN /\ UNCHANGED <<programs, files, epoch, live, compiled, loaded, served, obs>>
             /\ Finish(e, f, stack[e], Result("ok", "", Undefined, files[filename], "", ""))
        ELSE /\ stack' = [stack EXCEPT ![e] = Append(@, f)]
             /\ last' = NoReturn
             /\ UNCHANGED <<programs, files, epoch, live, ic, globals, heap, nextObj, exc,
                            compiled, loaded, served, obs>>

\* The cache miss of Open: load and store.
OpenLoad(e) ==
    /\ e \in live
    /\ ~Idle(e)
    /\ Top(e).kind = "open"
    /\ Top(e).pc = "load"
    /\ Quiet(e)
    /\ \E r \in Load(ic[e].fs, epoch, ic[e].pwd, Top(e).name) :
        LET f == Top(e) IN
        /\ files' = StoreFile(files, f.filename, r)
        /\ loaded' = IF r.ok THEN [loaded EXCEPT ![r.Filename] = Bump(@)] ELSE loaded
        /\ served' = IF r.ok /\ r.Filename \notin DOMAIN served
                     THEN Put(served, r.Filename, r.Data) ELSE served
        /\ obs' = [obs EXCEPT !.hitOpened = @ \/ f.gHit,
                              !.boundWrote = @ \/ (e # Base /\ files' # files)]
        /\ UNCHANGED <<programs, epoch, live, calls, compiled>>
        /\ Finish(e, f, Rest(e),
                  IF r.ok THEN Result("ok", "", Undefined, r.Data, "", "")
                  ELSE Failure("load"))

----------------------------------------------------------------------------
(* Execution of a module's top-level code: runtime.RunProgram(pgm.pgm) *)

\* Context e is running the top-level code of the module on top of its stack.
Running(e) ==
    /\ e \in live
    /\ ~Idle(e)
    /\ Top(e).kind = "file"
    /\ Top(e).pc = "exec"
    /\ ~exc[e]

Step(e) == [stack EXCEPT ![e][Len(stack[e])].ip = @ + 1]

\* exports.value = 1, on whatever the global exports is bound to now.
ExecSet(e) ==
    LET rt == ic[e].runtime
        g == globals[rt].exports
    IN  /\ Running(e)
        /\ CurOp(Top(e)).op = "set"
        /\ UNCHANGED <<programs, files, epoch, live, calls, compiled, loaded, served, obs>>
        /\ IF g.k = "obj" /\ g.id \in DOMAIN heap[rt]
           THEN /\ heap' = [heap EXCEPT ![rt][g.id].value = 1]
                /\ stack' = Step(e)
                /\ last' = NoReturn
                /\ UNCHANGED <<ic, globals, nextObj, exc>>
           ELSE Finish(e, Top(e), Rest(e), Failure("exec"))

\* module.exports = {value: 1}, on whatever the global module is bound to now.
ExecReassign(e) ==
    LET rt == ic[e].runtime
        g == globals[rt].module
        new == nextObj[rt] + 1
    IN  /\ Running(e)
        /\ CurOp(Top(e)).op = "reassign"
        /\ UNCHANGED <<programs, files, epoch, live, calls, compiled, loaded, served, obs>>
        /\ IF g.k = "obj" /\ g.id \in DOMAIN heap[rt]
           THEN /\ heap' = [heap EXCEPT ![rt] =
                               [Put(@, new, [EmptyObject EXCEPT !.value = 1])
                                   EXCEPT ![g.id].exports = Obj(new)]]
                /\ nextObj' = [nextObj EXCEPT ![rt] = new]
                /\ stack' = Step(e)
                /\ last' = NoReturn
                /\ UNCHANGED <<ic, globals, exc>>
           ELSE Finish(e, Top(e), Rest(e), Failure("exec"))

\* held.value += 1, on the object the module's last require returned.
ExecBump(e) ==
    LET rt == ic[e].runtime
        v == Top(e).held
    IN  /\ Running(e)
        /\ CurOp(Top(e)).op = "bump"
        /\ UNCHANGED <<programs, files, epoch, live, calls, compiled, loaded, served, obs>>
        /\ IF v.k = "obj" /\ v.id \in DOMAIN heap[rt]
           THEN /\ heap' = [heap EXCEPT ![rt][v.id].value = @ + 1]
                /\ stack' = Step(e)
                /\ last' = NoReturn
                /\ UNCHANGED <<ic, globals, nextObj, exc>>
           ELSE Finish(e, Top(e), Rest(e), Failure("exec"))

\* require(arg) in a module, caught by the module or not.
ExecRequire(e) ==
    /\ Running(e)
    /\ CurOp(Top(e)).op \in {"require", "tryrequire"}
    /\ Quiet(e)
    /\ UNCHANGED calls
    /\ DoRequire(e, CurOp(Top(e)).arg)

\* open(arg) in a module.
ExecOpen(e) ==
    /\ Running(e)
    /\ CurOp(Top(e)).op = "open"
    /\ Quiet(e)
    /\ UNCHANGED calls
    /\ DoOpen(e, CurOp(Top(e)).arg)

\* The module throws: RunProgram returns the error and requireFile returns it.
ExecThrow(e) ==
    /\ Running(e)
    /\ CurOp(Top(e)).op = "throw"
    /\ UNCHANGED <<programs, files, epoch, live, calls, compiled, loaded, served, obs>>
    /\ Finish(e, Top(e), Rest(e), Failure("exec"))

\* A call the module made threw and the module does not catch it: RunProgram
\* returns the error and requireFile returns it.
Propagate(e) ==
    /\ e \in live
    /\ ~Idle(e)
    /\ exc[e]
    /\ UNCHANGED <<programs, files, epoch, live, calls, compiled, loaded, served, obs>>
    /\ Finish(e, Top(e), Rest(e), Failure("exec"))

\* As ReturnValue, but handing back the exports object made on entry.
ReturnValueInitial(h, f) == Obj(f.gFirst + 1)

\* module.Get("exports"): the exports property, as it is now, of the module
\* object this activation made.
ReturnValue(h, f) ==
    IF f.module \in DOMAIN h THEN h[f.module].exports ELSE Undefined

\* The top-level code ran to its end: return module.Get("exports"), read from
\* the module object this activation made.
ExecEnd(e) ==
    LET rt == ic[e].runtime
        f == Top(e)
    IN  /\ Running(e)
        /\ CurOp(f).op = "end"
        /\ UNCHANGED <<programs, files, epoch, live, calls, compiled, loaded, served, obs>>
        /\ Finish(e, f, Rest(e),
                  Result("ok", "", ReturnValue(heap[rt], f), <<>>, "", ""))

----------------------------------------------------------------------------
(* The entry scripts *)

\* The entry script of context e calls require(arg).
Require(e, arg) ==
    /\ MayCall(e)
    /\ e # Base => arg \in BoundRequireArgs
    /\ calls' = calls + 1
    /\ DoRequire(e, arg)

\* The entry script of context e calls open(arg).
Open(e, arg) ==
    /\ MayCall(e)
    /\ e # Base => arg \in BoundOpenArgs
    /\ calls' = calls + 1
    /\ DoOpen(e, arg)

Next ==
    \/ Edit
    \/ \E w \in Workers : Replicate(w)
    \/ \E e \in Envs, arg \in RequireArgs : Require(e, arg)
    \/ \E e \in Envs, arg \in OpenArgs : Open(e, arg)
    \/ \E e \in Envs : LoadCompile(e)
    \/ \E e \in Envs : OpenLoad(e)
    \/ \E e \in Envs : ExecSet(e)
    \/ \E e \in Envs : ExecReassign(e)
    \/ \E e \in Envs : ExecBump(e)
    \/ \E e \in Envs : ExecRequire(e)
    \/ \E e \in Envs : ExecOpen(e)
    \/ \E e \in Envs : ExecThrow(e)
    \/ \E e \in Envs : Propagate(e)
    \/ \E e \in Envs : ExecEnd(e)

Spec == Init /\ [][Next]_vars

\* Calls made one after another: at most one context is inside Require or Open.
Sequential == \A a, b \in live : (~Idle(a) /\ ~Idle(b)) => a = b

SeqNext ==
    \/ Edit /\ Sequential'
    \/ \E w \in Workers : Replicate(w) /\ Sequential'
    \/ \E e \in Envs, arg \in RequireArgs : Require(e, arg) /\ Sequential'
    \/ \E e \in Envs, arg \in OpenArgs : Open(e, arg) /\ Sequential'
    \/ \E e \in Envs : LoadCompile(e) /\ Sequential'
    \/ \E e \in Envs : OpenLoad(e) /\ Sequential'
    \/ \E e \in Envs : ExecSet(e) /\ Sequential'
    \/ \E e \in Envs : ExecReassign(e) /\ Sequential'
    \/ \E e \in Envs : ExecBump(e) /\ Sequential'
    \/ \E e \in Envs : ExecRequire(e) /\ Sequential'
    \/ \E e \in Envs : ExecOpen(e) /\ Sequential'
    \/ \E e \in Envs : ExecThrow(e) /\ Sequential'
    \/ \E e \in Envs : Propagate(e) /\ Sequential'
    \/ \E e \in Envs : ExecEnd(e) /\ Sequential'

SeqSpec == Init /\ [][SeqNext]_vars

\* Specifiers the entry script of the base context passes to require() when a
\* module that requires itself is among its modules.
LoopArgs ==
    { <<".", "loop.js">>, <<".", "sub", "a.js">>, <<".", "boom.js">>, <<".", "c.js">>,
      <<".", "main.js">> }

\* The base context alone, with loop.js among its modules: a nested require is
\* followed while fewer than MaxDepth activations are in progress.
LoopNext ==
    \/ Edit
    \/ \E arg \in LoopArgs : Require(Base, arg)
    \/ \E arg \in OpenArgs : Open(Base, arg)
    \/ LoadCompile(Base)
    \/ OpenLoad(Base)
    \/ ExecSet(Base)
    \/ ExecReassign(Base)
    \/ ExecBump(Base)
    \/ ExecRequire(Base) /\ Len(stack[Base]) < MaxDepth
    \/ ExecOpen(Base)
    \/ ExecThrow(Base)
    \/ Propagate(Base)
    \/ ExecEnd(Base)

\* Require and Open run synchronously to completion: a call in progress keeps
\* taking steps.
LoopSpec == Init /\ [][LoopNext]_vars /\ WF_vars(LoopNext)

----------------------------------------------------------------------------
(* Properties *)

\* The step just taken returned from a call of kind op ("file", "builtin", "open").
Returned(op) == last.kind # "none" /\ last.op = op

\* The activations in progress, over all contexts.
Frames == UNION { { stack[e][k] : k \in DOMAIN stack[e] } : e \in live }

\* C1: whenever a file-based Require returns, at any depth and with any
\* outcome, the context's pwd is what it was when the call was entered.
C1_PwdRestored ==
    Returned("file") => last.pwdOut = last.pwdIn

\* A Require of sub/a.js from the home directory returns the error of a call
\* it made, after moving pwd to the module's directory.
C1_Witness ==
    /\ Returned("file")
    /\ last.kind = "err"
    /\ last.err = "exec"
    /\ last.filename = SubAJs
    /\ last.pwdIn = HomeDir
    /\ last.pwdOut = HomeDir

\* C2: whenever a file-based Require returns, the global exports and module
\* bindings are what they were before the call: the same objects, and unbound
\* if they were unbound.
C2_BindingsRestored ==
    Returned("file") => last.bindOut = last.bindIn

\* C3: in calls made one after another, a specifier that resolves to a path
\* already in the module cache never reaches the loader or the compiler and
\* runs the cached program, so no path is compiled successfully more than once.
C3_CompiledOnce ==
    /\ ~obs.hitLoaded
    /\ \A p \in Paths : compiled[p] <= 1
    /\ \A f \in Frames :
         (f.kind = "file" /\ f.gHit) =>
             /\ f.pc = "exec"
             /\ f.filename \in DOMAIN programs
             /\ f.pgm = programs[f.filename]

\* main.js requires lib.js as "../t/lib.js" after it required it as "./lib.js":
\* the second call finds the entry the first specifier made.
C3_Witness ==
    \E f \in Frames :
        /\ f.kind = "file"
        /\ f.name = <<"..", "t", "lib.js">>
        /\ f.gHit
        /\ f.pc = "exec"
        /\ compiled[LibJs] = 1

\* C4: every successful file-based Require hands back an object made during
\* that very call, so never one an earlier call returned, and its value is the
\* one the module's code sets, whatever was done to earlier results.
C4_NeverMemoized ==
    (Returned("file") /\ last.kind = "ok") =>
        /\ last.val.k = "obj"
        /\ last.val.id > last.first
        /\ last.filename \in {LibJs, SubAJs, NewJs, K6File, CJs} => last.value = 1

\* main.js required lib.js, changed value on the result to 2, and requires
\* lib.js again: the second result has value 1 and the first still has 2.
C4_Witness ==
    /\ Returned("file")
    /\ last.kind = "ok"
    /\ last.filename = LibJs
    /\ last.value = 1
    /\ ~Idle(last.env)
    /\ stack[last.env][1].filename = MainJs
    /\ stack[last.env][1].ip = 4
    /\ \E i \in DOMAIN heap[ic[last.env].runtime] :
           /\ i # last.val.id
           /\ heap[ic[last.env].runtime][i].value = 2

\* C5: a bound context requiring a path whose whole module graph the base
\* context put in the module cache never stores into the module cache, however
\* its calls interleave with another bound context's; each such call succeeds
\* with an object made during that call in the context's own runtime, carrying
\* the value the module's code sets.
C5_WarmCacheReadOnly ==
    /\ ~obs.warmWrote
    /\ \A a, b \in live : a # b => ic[a].runtime # ic[b].runtime
    /\ (Returned("file") /\ last.env \in Workers /\ last.warm) =>
           /\ last.kind = "ok"
           /\ last.val.k = "obj"
           /\ last.val.id > last.first
           /\ last.value = 1

\* Both bound contexts are inside a Require of sub/a.js, which the base context
\* ran before: w2 gets lib.js back while w1 is between its two nested calls.
C5_Witness ==
    /\ Returned("file")
    /\ last.env = "w2"
    /\ last.kind = "ok"
    /\ last.filename = LibJs
    /\ last.warm
    /\ ~Idle("w1") /\ ~Idle("w2")
    /\ stack["w1"][1].filename = SubAJs
    /\ stack["w1"][1].gWarm
    /\ stack["w1"][1].ip = 2
    /\ stack["w2"][1].filename = SubAJs

\* C6: no Require or Open made on a bound context stores an entry in the
\* module cache or the file cache.
C6_InitPhaseWritesOnly ==
    ~obs.boundWrote

\* C7: a Require of a name in the builtin namespace that the registry does not
\* hold fails with the unknown-builtin error, and the module cache, the file
\* cache, pwd and the exports/module bindings are as before the call.
C7_UnknownBuiltin ==
    (Returned("builtin") /\ last.name \notin Index) =>
        /\ last.kind = "err"
        /\ last.err = "unknown builtin module"
        /\ last.same
        /\ last.pwdOut = last.pwdIn
        /\ last.bindOut = last.bindIn

\* require("k6/doesnotexist") fails after the caches were populated.
C7_Witness ==
    /\ Returned("builtin")
    /\ last.name = <<"k6", "doesnotexist">>
    /\ last.kind = "err"
    /\ DOMAIN programs # {}
    /\ DOMAIN files # {}

\* C8: in calls made one after another, a Require or Open that fails in the
\* loader or the compiler leaves both caches as they were, with no entry for
\* its path; and a call for a path that has no entry goes to the loader.
C8_FailureNotCached ==
    /\ (last.kind = "err" /\ last.err \in {"load", "compile"}) =>
           /\ last.same
           /\ ~last.hit
           /\ last.op = "file" => last.filename \notin DOMAIN programs
           /\ last.op = "open" => last.filename \notin DOMAIN files
    /\ \A f \in Frames :
         (f.kind \in {"file", "open"} /\ ~f.gHit) =>
             \/ f.pc = "load"
             \/ f.kind = "file" /\ f.pc = "exec" /\ f.pgm # NoProgram

\* c.js requires bad.js twice, catching the error: the second call fails in
\* the compiler as the first did.
C8_Witness ==
    /\ Returned("file")
    /\ last.err = "compile"
    /\ last.filename = BadJs
    /\ ~Idle(last.env)
    /\ stack[last.env][1].filename = CJs
    /\ stack[last.env][1].ip = 3
    /\ BadJs \notin DOMAIN programs

\* C9: in calls made one after another, every successful Open of a path
\* returns the content its first successful Open returned, an Open that finds
\* the path in the file cache never reaches the loader, and no path is loaded
\* successfully more than once.
C9_OpenOnce ==
    /\ ~obs.hitOpened
    /\ \A p \in Paths : loaded[p] <= 1
    /\ (Returned("open") /\ last.kind = "ok") =>
           /\ last.filename \in DOMAIN served
           /\ last.data = served[last.filename]

\* open("./a.txt") from the home directory finds the entry of /t/a.txt and
\* returns its first content although the file has changed on disk since.
C9_Witness ==
    /\ Returned("open")
    /\ last.kind = "ok"
    /\ last.name = <<".", "a.txt">>
    /\ last.pwdIn = HomeDir
    /\ last.hit
    /\ epoch = 1
    /\ last.data.ver = 1
    /\ loaded[ATxt] = 1

\* Context e takes a step of Open: it enters Open and misses, or Open returns.
OpenStep(e) ==
    \/ last'.kind # "none" /\ last'.env = e /\ last'.op = "open"
    \/ /\ Len(stack'[e]) = Len(stack[e]) + 1
       /\ stack'[e][Len(stack'[e])].kind = "open"

\* Context e takes a step of Require: it enters requireFile, loads and
\* compiles, or Require returns.
RequireStep(e) ==
    \/ last'.kind # "none" /\ last'.env = e /\ last'.op \in {"file", "builtin"}
    \/ /\ Len(stack'[e]) = Len(stack[e]) + 1
       /\ stack'[e][Len(stack'[e])].kind = "file"
    \/ /\ Len(stack'[e]) = Len(stack[e])
       /\ stack[e] # <<>>
       /\ Top(e).kind = "file"
       /\ Top(e).pc = "load"
       /\ stack'[e][Len(stack'[e])].pc = "exec"

\* C10: no step of Open changes the module cache, compiles, starts a module,
\* creates an object, or changes pwd or the exports/module bindings; no step
\* of Require changes the file cache or loads for it.
C10_CachesIndependent ==
    [][ \A e \in Envs :
          /\ OpenStep(e) =>
               /\ UNCHANGED <<programs, compiled, ic, globals, heap>>
               /\ \A k \in DOMAIN stack'[e] : stack'[e][k].kind = "file" =>
                      /\ k \in DOMAIN stack[e]
                      /\ stack'[e][k].pgm = stack[e][k].pgm
          /\ RequireStep(e) => UNCHANGED <<files, loaded, served>> ]_vars

\* sub/a.js, run from the directory /t/sub with modules in the cache, opens
\* "../a.txt": Open stores the file and returns with pwd still /t/sub.
C10_Witness ==
    /\ Returned("open")
    /\ last.kind = "ok"
    /\ ~last.hit
    /\ last.depth = 1
    /\ last.pwdOut = <<"t", "sub">>
    /\ LibJs \in DOMAIN programs
    /\ ATxt \in DOMAIN files

\* Context e takes a step of Require or Open in the move from this state to
\* the next.
Acts(e) ==
    \/ stack'[e] # stack[e]
    \/ last'.kind # "none" /\ last'.env = e

\* C11: a bound context starts with the pwd the base context has when it is
\* made, and a step of Require or Open on one context changes neither the pwd
\* nor the exports/module bindings of any other context.
C11_StateNeverCrosses ==
    [][ /\ \A w \in Workers :
             (w \notin live /\ w \in live') => ic'[w].pwd = ic[Base].pwd
        /\ \A e \in live : Acts(e) =>
             \A o \in live \ {e} :
                 /\ ic'[o] = ic[o]
                 /\ globals'[ic[o].runtime] = globals[ic[o].runtime] ]_vars

\* w1 is inside sub/a.js with pwd /t/sub and its own exports object, while w2
\* is inside a call of its own from the home directory.
C11_Witness ==
    /\ ~Idle("w1") /\ ~Idle("w2")
    /\ ic["w1"].pwd = <<"t", "sub">>
    /\ ic["w2"].pwd = HomeDir
    /\ ic[Base].pwd = HomeDir
    /\ globals[ic["w1"].runtime] # globals[ic["w2"].runtime]

\* The specifiers passed to Require that are "k6" or start with "k6/".
ReservedArgs == { <<"k6">>, <<"k6", "http">>, <<"k6", "doesnotexist">> }

\* C12: a Require is answered by the builtin registry exactly when its
\* specifier is "k6" or starts with "k6/"; such a call leaves the module cache,
\* the file cache and pwd alone, resolves no path and hands back the native
\* module or the unknown-builtin error; requireFile is entered for every other
\* specifier, "k6foo" included, and for none of these.
C12_Classification ==
    /\ (last.kind # "none" /\ last.op \in {"file", "builtin"}) =>
           (last.op = "builtin" <=> last.name \in ReservedArgs)
    /\ Returned("builtin") =>
           /\ last.same
           /\ last.pwdOut = last.pwdIn
           /\ last.filename = <<>>
           /\ last.kind = "ok" => last.val.k = "native"
           /\ last.kind = "err" => last.err = "unknown builtin module"
    /\ \A f \in Frames : f.name \notin ReservedArgs

\* require("k6foo") has gone to the loader as the file /t/k6foo, and failed
\* there since there is no such file.
C12_Witness ==
    /\ Returned("file")
    /\ last.name = <<"k6foo">>
    /\ last.filename = <<"t", "k6foo">>
    /\ last.err = "load"

\* The directory of the innermost module context e is loading or running; the
\* directory the context was made with when it is in no module.
ModuleDir(e) ==
    LET s == stack[e]
        k == IF s # <<>> /\ s[Len(s)].kind = "file" THEN Len(s) ELSE Len(s) - 1
    IN  IF k >= 1 THEN Dir(s[k].filename) ELSE HomeDir

\* C13: while a module is being loaded or is running, pwd is the directory of
\* that module; the path of every call in progress is its specifier resolved
\* against the directory of the module that made the call, also for the calls
\* a module makes after an earlier nested call has returned or failed.
C13_PwdIsModuleDir ==
    \A e \in live :
        /\ ic[e].pwd = ModuleDir(e)
        /\ \A j \in DOMAIN stack[e] :
               stack[e][j].filename =
                   Resolve(IF j = 1 THEN HomeDir ELSE Dir(stack[e][j - 1].filename),
                           stack[e][j].name)

\* sub/a.js, after its require("../lib.js") returned from /t, opens
\* "../a.txt": it resolves against /t/sub to /t/a.txt.
C13_Witness ==
    \E e \in live :
        /\ Len(stack[e]) = 2
        /\ stack[e][1].filename = SubAJs
        /\ stack[e][1].ip = 2
        /\ stack[e][2].kind = "open"
        /\ stack[e][2].name = <<"..", "a.txt">>
        /\ stack[e][2].filename = ATxt
        /\ ic[e].pwd = <<"t", "sub">>

\* C14: when a module's code raises an error, Require returns the error with
\* pwd and the exports/module bindings as they were before the call, and the
\* module's program is still in the module cache.
C14_ExecErrorRestores ==
    (Returned("file") /\ last.err = "exec") =>
        /\ last.pwdOut = last.pwdIn
        /\ last.bindOut = last.bindIn
        /\ last.filename \in DOMAIN programs

\* C15: a successful Require of a module hands back what the exports property
\* of the module object made for that call holds when the code has run: the
\* object made by the module's own assignment to module.exports (sub/a.js: the
\* fifth object of the call, after the two of its nested require), else the
\* exports object made on entry (the first object of the call); never an
\* object made for a nested call or one the caller had.
C15_ReturnsModuleExports ==
    (Returned("file") /\ last.kind = "ok") =>
        /\ last.val.k = "obj"
        /\ last.val.id = IF last.filename = SubAJs THEN last.first + 5 ELSE last.first + 1
        /\ last.filename = MainJs => last.value = 0

\* sub/a.js, required from the entry script, returns the object it assigned to
\* module.exports.
C15_Witness ==
    /\ Returned("file")
    /\ last.kind = "ok"
    /\ last.filename = SubAJs
    /\ last.depth = 0
    /\ last.val = Obj(last.first + 5)
    /\ last.value = 1

\* C16: in calls made one after another, no step of any context removes or
\* changes an entry of the module cache or of the file cache.
C16_EntriesNeverReplaced ==
    [][ /\ \A p \in DOMAIN programs : p \in DOMAIN programs' /\ programs'[p] = programs[p]
        /\ \A p \in DOMAIN files : p \in DOMAIN files' /\ files'[p] = files[p] ]_vars

\* lib.js has changed on disk since it was compiled: a Require of it runs the
\* program made from the first content, and a.txt is served as first read.
C16_Witness ==
    /\ epoch = 1
    /\ \E f \in Frames :
           /\ f.kind = "file"
           /\ f.filename = LibJs
           /\ f.gHit
           /\ f.pgm = [pgm |-> <<LibJs, 1>>, src |-> <<LibJs, 1>>]
    /\ ATxt \in DOMAIN files
    /\ files[ATxt].ver = 1
    /\ Disk(epoch, LibJs).ver = 2
    /\ Disk(epoch, ATxt).ver = 2

\* C17: a successful builtin Require hands back the native module bound to the
\* runtime and the context pointer of the context it was called on, for a
\* bound context those it was made with and not the base's or another
\* context's; the call stores nothing, so every call binds anew.
C17_BuiltinBoundToCaller ==
    (Returned("builtin") /\ last.kind = "ok") =>
        /\ last.val.k = "native"
        /\ last.data = last.name
        /\ last.rt = RuntimeOf(last.env)
        /\ last.ctx = CtxPtrOf(last.env)
        /\ \A o \in Envs \ {last.env} : last.rt # RuntimeOf(o) /\ last.ctx # CtxPtrOf(o)
        /\ last.same
        /\ last.name \notin (DOMAIN programs \cup DOMAIN files)

\* require("k6/http") on the second bound context, after the first one and the
\* base context exist: the module carries w2's runtime and context pointer.
C17_Witness ==
    /\ Returned("builtin")
    /\ last.kind = "ok"
    /\ last.env = "w2"
    /\ last.name = <<"k6", "http">>
    /\ last.rt = "rt2"
    /\ last.ctx = "ctx2"
    /\ live = Envs

\* C18: a Require of a module whose require graph has no cycle returns, and
\* every return leaves as many activations in progress as there were when the
\* call was entered; a Require of loop.js, which requires itself, never
\* returns, neither with a value nor with an error.
C18_TerminatesUnlessCyclic ==
    /\ [](last.kind # "none" => Len(stack[last.env]) = last.depthIn)
    /\ [](~(Returned("file") /\ last.filename = LoopJs))
    /\ (~Idle(Base) /\ stack[Base][1].filename # LoopJs) ~> Idle(Base)

\* loop.js was compiled once and is being run MaxDepth times over, each
\* activation but the first started from the cached program.
C18_Witness ==
    /\ Len(stack[Base]) = MaxDepth
    /\ \A k \in DOMAIN stack[Base] :
           /\ stack[Base][k].filename = LoopJs
           /\ stack[Base][k].pc = "exec"
           /\ k > 1 => stack[Base][k].gHit
    /\ compiled[LoopJs] = 1

====
